---- MODULE Spec2Model ----
(***************************************************************************)
(* The Fuzzy Cognitive Mapping tool of src/app.py: one run of the script,  *)
(* top to bottom, over the values the widgets hold when the run starts.    *)
(*                                                                         *)
(* Numbers.  Activations, weights and the damping factor are Python        *)
(* floats.  They are modelled as integers in units of 1/Scale.  The        *)
(* inputs are restricted to multiples of 1/2 and the run to MaxSteps       *)
(* steps, for which every product and sum of the run is a multiple of      *)
(* 1/Scale and binary floating point computes it exactly as well.          *)
(*                                                                         *)
(* Text.  A line of text is a tuple of one-character strings; a concept    *)
(* name is the stripped line, so A is <<"A">>; None is the empty tuple,    *)
(* which no stripped non-empty line equals.                                *)
(*                                                                         *)
(* Widgets.  A widget is an input source: the value it returns is the one  *)
(* the session holds under the widget's key (its label when it has no      *)
(* key), so two widgets with one key return one value.  What the widget    *)
(* library itself does with a script (it may refuse a second widget with   *)
(* the key or label of an earlier one) is not in the source and is not     *)
(* modelled: every statement of the script runs as written.                *)
(***************************************************************************)
EXTENDS Integers, Sequences, FiniteSets, TLC

(* ------------------------------ bounds -------------------------------- *)

\* the largest step count the steps slider is set to
MaxSteps == 2

\* the largest number of weight fields that are not left blank
MaxFilled == 2

\* the largest number of weight fields filled in on the six-concept maps
MaxLinks == 3

(* --------------------------- number helpers --------------------------- *)

RECURSIVE Pow(_, _)
Pow(b, e) == IF e = 0 THEN 1 ELSE b * Pow(b, e - 1)

\* one unit of the fixed-point representation is 1/Scale
Scale == 2 * Pow(4, MaxSteps)

Half == Scale \div 2
One == Scale

\* float multiplication of two fixed-point numbers
Mul(a, b) == (a * b) \div Scale

Max2(a, b) == IF a >= b THEN a ELSE b
Min2(a, b) == IF a <= b THEN a ELSE b

Range(s) == {s[i] : i \in 1..Len(s)}

EmptyDict == [k \in {} |-> 0]

\* d[k] = v on a dict
Put(d, k, v) == [x \in (DOMAIN d) \cup {k} |-> IF x = k THEN v ELSE d[x]]

RECURSIVE SumOver(_, _)
SumOver(S, f) ==
    IF S = {} THEN 0
    ELSE LET x == CHOOSE y \in S : TRUE IN f[x] + SumOver(S \ {x}, f)

(* ---------------------------- text helpers ---------------------------- *)

None == <<>>
Blank == <<>>

Whitespace == {" "}
Digits == {"0", "1", "2", "5"}

DigitValue(c) == CASE c = "0" -> 0 [] c = "1" -> 1 [] c = "2" -> 2 [] c = "5" -> 5

RECURSIVE LStrip(_)
LStrip(s) == IF s # <<>> /\ Head(s) \in Whitespace THEN LStrip(Tail(s)) ELSE s

RECURSIVE RStrip(_)
RStrip(s) ==
    IF s # <<>> /\ s[Len(s)] \in Whitespace
    THEN RStrip(SubSeq(s, 1, Len(s) - 1))
    ELSE s

\* str.strip()
Strip(s) == RStrip(LStrip(s))

\* [x.strip() for x in text.split("\n") if x.strip() != ""], text given by its lines
StripLines(lines) == SelectSeq([i \in 1..Len(lines) |-> Strip(lines[i])], LAMBDA x : x # <<>>)

RECURSIVE DigitsValue(_)
DigitsValue(s) ==
    IF s = <<>> THEN 0 ELSE 10 * DigitsValue(SubSeq(s, 1, Len(s) - 1)) + DigitValue(s[Len(s)])

\* float(val): [ok |-> FALSE] is ValueError, else the value in units of 1/Scale.
\* The grammar is the decimal part of Python's: surrounding whitespace, an
\* optional sign, digits with at most one point and at least one digit.
ParseFloat(val) ==
    LET s == Strip(val)
        signed == s # <<>> /\ Head(s) \in {"+", "-"}
        neg == signed /\ Head(s) = "-"
        body == IF signed THEN Tail(s) ELSE s
        points == {i \in 1..Len(body) : body[i] = "."}
        wellFormed == /\ \A i \in 1..Len(body) : body[i] \in Digits \cup {"."}
                      /\ Cardinality(points) <= 1
                      /\ \E i \in 1..Len(body) : body[i] \in Digits
        digits == SelectSeq(body, LAMBDA c : c # ".")
        frac == IF points = {} THEN 0 ELSE Len(body) - (CHOOSE i \in points : TRUE)
        magnitude == (DigitsValue(digits) * Scale) \div Pow(10, frac)
    IN IF wellFormed
       THEN [ok |-> TRUE, value |-> IF neg THEN 0 - magnitude ELSE magnitude]
       ELSE [ok |-> FALSE, value |-> 0]

(* ------------------------- the code's constants ----------------------- *)

\* if len(node_list) < 2
MinNodes == 2

\* if len(edges) >= 5
MinEdgesForSummary == 5

\* sorted(...)[:5]
TopN == 5

\* the steps slider's default
DefaultSteps == 3

\* damping = 0.5
damping == Half

(* ----------------------- concept entry (l.57-76) ---------------------- *)

\* the keys of a dict filled in the order of seq: first occurrences only
RECURSIVE Dedup(_)
Dedup(seq) ==
    IF seq = <<>> THEN <<>>
    ELSE LET front == Dedup(SubSeq(seq, 1, Len(seq) - 1))
             last == seq[Len(seq)]
         IN IF last \in Range(front) THEN front ELSE Append(front, last)

\* category_to_nodes[cat] = [n.strip() for n in nodes_text.split("\n") if n.strip() != ""]
CategoryToNodes(cats, areas) == [c \in Range(cats) |-> StripLines(areas[c])]

RECURSIVE Flatten(_, _)
Flatten(keys, dict) ==
    IF keys = <<>> THEN <<>> ELSE dict[Head(keys)] \o Flatten(Tail(keys), dict)

\* node_list = [n for sublist in category_to_nodes.values() for n in sublist]
NodeListOf(cats, c2n) == Flatten(Dedup(cats), c2n)

(* --------------------- influence entry (l.90-120) --------------------- *)

\* the weight fields the script creates: one key per (i, j) with different names
FieldKeys(nl) == {k \in (1..Len(nl)) \X (1..Len(nl)) : nl[k[1]] # nl[k[2]]}

\* variant: the range test without the test for 0.0
AcceptsZeroToo(w) == (0 - One) <= w /\ w <= One

\* if -1.0 <= weight <= 1.0 and weight != 0.0
AcceptsWeight(w) == (0 - One) <= w /\ w <= One /\ w # 0

\* one field: try: float(val), test, append; except: continue
FieldEdge(nl, fields, i, j) ==
    IF nl[i] = nl[j] THEN <<>>
    ELSE LET r == ParseFloat(fields[<<i, j>>])
         IN IF r.ok /\ AcceptsWeight(r.value)
            THEN << <<nl[i], nl[j], r.value>> >>
            ELSE <<>>

\* for j, target in enumerate(node_list), from j on
RECURSIVE RowEdges(_, _, _, _)
RowEdges(nl, fields, i, j) ==
    IF j > Len(nl) THEN <<>>
    ELSE FieldEdge(nl, fields, i, j) \o RowEdges(nl, fields, i, j + 1)

\* for i, source in enumerate(node_list), from i on: the loop of l.96-106
\* and then the loop of l.110-120 over the same keys
RECURSIVE CollectEdges(_, _, _)
CollectEdges(nl, fields, i) ==
    IF i > Len(nl) THEN <<>>
    ELSE RowEdges(nl, fields, i, 1) \o RowEdges(nl, fields, i, 1)
         \o CollectEdges(nl, fields, i + 1)

(* -------------------------- networkx DiGraph -------------------------- *)

EmptyGraph == [nodes |-> <<>>, weight |-> EmptyDict]

AddNode(Gr, n) == IF n \in Range(Gr.nodes) THEN Gr ELSE [Gr EXCEPT !.nodes = Append(@, n)]

RECURSIVE AddNodesFrom(_, _)
AddNodesFrom(Gr, list) ==
    IF list = <<>> THEN Gr ELSE AddNodesFrom(AddNode(Gr, Head(list)), Tail(list))

\* variant: a pair defined again adds to the weight it has
SumsWeight(old, e) ==
    IF <<e[1], e[2]>> \in DOMAIN old THEN old[<<e[1], e[2]>>] + e[3] ELSE e[3]

\* the weight add_weighted_edges_from stores for e, old being the weights so
\* far: the new one, whether or not the pair has one already
EdgeWeight(old, e) == e[3]

AddWeightedEdge(Gr, e) ==
    LET g == AddNode(AddNode(Gr, e[1]), e[2])
    IN [g EXCEPT !.weight = Put(@, <<e[1], e[2]>>, EdgeWeight(@, e))]

RECURSIVE AddWeightedEdgesFrom(_, _)
AddWeightedEdgesFrom(Gr, es) ==
    IF es = <<>> THEN Gr ELSE AddWeightedEdgesFrom(AddWeightedEdge(Gr, Head(es)), Tail(es))

\* G = nx.DiGraph(); G.add_nodes_from(node_list); G.add_weighted_edges_from(edges)
BuildGraph(nl, es) == AddWeightedEdgesFrom(AddNodesFrom(EmptyGraph, nl), es)

Predecessors(Gr, node) == {p \in Range(Gr.nodes) : <<p, node>> \in DOMAIN Gr.weight}

Successors(Gr, node) == {t \in Range(Gr.nodes) : <<node, t>> \in DOMAIN Gr.weight}

OutDegree(Gr, node) == Cardinality(Successors(Gr, node))

InDegree(Gr, node) == Cardinality(Predecessors(Gr, node))

(* ------------------------ propagation (l.152-164) --------------------- *)

\* variant: no upper clamp
ClampsBelowOnly(x) == Max2(0, x)

\* def squash(x): return max(0, min(1, x))
squash(x) == Max2(0, Min2(One, x))

\* sum(values[pred] * G[pred][node]['weight'] for pred in G.predecessors(node))
Influence(Gr, values, node) ==
    LET preds == Predecessors(Gr, node)
    IN SumOver(preds, [p \in preds |-> Mul(values[p], Gr.weight[<<p, node>>])])

\* the values of this step where they exist already, the snapshot elsewhere
Latest(values, updated) ==
    [n \in DOMAIN values |-> IF n \in DOMAIN updated THEN updated[n] ELSE values[n]]

\* variant: a node visit reads the values already updated in this step
UpdatesInPlace(Gr, values, updated, node) ==
    Put(updated, node,
        squash(Latest(values, updated)[node]
               + Mul(damping, Influence(Gr, Latest(values, updated), node))))

\* variant: damping scales the carried-forward value as well
DampsPriorToo(Gr, values, updated, node) ==
    Put(updated, node, squash(Mul(damping, values[node] + Influence(Gr, values, node))))

\* variant: the influence sum is added undamped
IgnoresDamping(Gr, values, updated, node) ==
    Put(updated, node, squash(values[node] + Influence(Gr, values, node)))

\* updated_values[node] = squash(current_values[node] + damping * influence)
UpdateNode(Gr, values, updated, node) ==
    Put(updated, node, squash(values[node] + Mul(damping, Influence(Gr, values, node))))

(* ------------------------ graph summary (l.203-223) ------------------- *)

\* dict(G.out_degree()).items() and dict(G.in_degree()).items()
OutDegreeItems(Gr) == [i \in 1..Len(Gr.nodes) |-> <<Gr.nodes[i], OutDegree(Gr, Gr.nodes[i])>>]

InDegreeItems(Gr) == [i \in 1..Len(Gr.nodes) |-> <<Gr.nodes[i], InDegree(Gr, Gr.nodes[i])>>]

\* x goes behind every item whose key is at least its own
InsertDesc(sorted, x) ==
    LET k == Cardinality({i \in 1..Len(sorted) : sorted[i][2] >= x[2]})
    IN SubSeq(sorted, 1, k) \o <<x>> \o SubSeq(sorted, k + 1, Len(sorted))

\* variant: x goes in front of every item whose key is at most its own
InsertDescUnstable(sorted, x) ==
    LET k == Cardinality({i \in 1..Len(sorted) : sorted[i][2] > x[2]})
    IN SubSeq(sorted, 1, k) \o <<x>> \o SubSeq(sorted, k + 1, Len(sorted))

\* variant: largest key first, equal keys in reverse order
RECURSIVE SortedReversed(_)
SortedReversed(items) ==
    IF items = <<>> THEN <<>>
    ELSE InsertDescUnstable(SortedReversed(SubSeq(items, 1, Len(items) - 1)), items[Len(items)])

\* sorted(items, key=lambda x: x[1], reverse=True): stable, largest key first
RECURSIVE SortedByDegree(_)
SortedByDegree(items) ==
    IF items = <<>> THEN <<>>
    ELSE InsertDesc(SortedByDegree(SubSeq(items, 1, Len(items) - 1)), items[Len(items)])

\* seq[:n]
Take(seq, n) == SubSeq(seq, 1, Min2(n, Len(seq)))

(* --------------------- ripple effect (l.245-285) ---------------------- *)

\* candidate_targets = [n for n in node_list if n != selected_source]
CandidateTargets(nl, source) == SelectSeq(nl, LAMBDA n : n # source)

\* l.251-252: the list with the weight of every (source, target) entry replaced
Overridden(es, source, target, w) ==
    [i \in 1..Len(es) |->
        IF es[i][1] = source /\ es[i][2] = target THEN <<es[i][1], es[i][2], w>> ELSE es[i]]

\* variant: the override matches on the source alone
OverridesEverySourceEdge(es, source, target, w) ==
    LET changed == [i \in 1..Len(es) |->
                       IF es[i][1] = source THEN <<es[i][1], es[i][2], w>> ELSE es[i]]
        exists == \E i \in 1..Len(es) : es[i][1] = source /\ es[i][2] = target
    IN IF ~exists /\ w # 0 THEN Append(changed, <<source, target, w>>) ELSE changed

\* modified_edges, l.251-255
ModifiedEdges(es, source, target, w) ==
    LET exists == \E i \in 1..Len(es) : es[i][1] = source /\ es[i][2] = target
    IN IF ~exists /\ w # 0
       THEN Append(Overridden(es, source, target, w), <<source, target, w>>)
       ELSE Overridden(es, source, target, w)

\* variant: the modified run continues from the original result
StartsFromResult(initial, result) == result

\* mod_values = initial_values.copy()
ModStart(initial, result) == initial

\* round(x, 3), in thousandths: the nearest, a tie to the even one
Round3(x) ==
    LET q == (x * 1000) \div Scale
        r == (x * 1000) % Scale
    IN IF 2 * r < Scale THEN q
       ELSE IF 2 * r > Scale THEN q + 1
       ELSE IF q % 2 = 0 THEN q ELSE q + 1

\* comparison_df: one row per entry of node_list
Comparison(nl, original, modified) ==
    [i \in 1..Len(nl) |->
        [Concept |-> nl[i],
         Original |-> Round3(original[nl[i]]),
         Modified |-> Round3(modified[nl[i]]),
         Change |-> Round3(modified[nl[i]]) - Round3(original[nl[i]])]]

(* ------------------------------- state -------------------------------- *)

VARIABLES
    ui,                 \* the widget values of this run
    pc,                 \* the statement the script is at
    categories, category_to_nodes, node_list,
    edges, initial_values, G,
    steps, current_values, updated_values,
    step_no,            \* completed iterations of the running step loop
    node_ix,            \* nodes of the running step already visited
    top_out, top_in,
    selected_source, selected_target, new_weight,
    modified_edges, G_mod, original_values, mod_values, new_mod,
    comparison

inputs == <<ui>>
entry == <<categories, category_to_nodes, node_list, edges, initial_values>>
original == <<G, steps, current_values>>
cursor == <<updated_values, step_no, node_ix>>
summary == <<top_out, top_in>>
ripple == <<selected_source, selected_target, new_weight, modified_edges, G_mod>>
modified == <<original_values, mod_values, new_mod, comparison>>

vars == <<ui, pc, categories, category_to_nodes, node_list, edges, initial_values, G,
          steps, current_values, updated_values, step_no, node_ix, top_out, top_in,
          selected_source, selected_target, new_weight, modified_edges, G_mod,
          original_values, mod_values, new_mod, comparison>>

(* --------------------------- the widget values ------------------------ *)

A == <<"A">>
B == <<"B">>
C == <<"C">>
D == <<"D">>
E == <<"E">>
F == <<"F">>
P == <<"P">>
Q == <<"Q">>

\* what a run that stops at l.62 or l.76 leaves of the later widgets
Unset == [fields |-> EmptyDict, init_slider |-> EmptyDict, steps_slider |-> DefaultSteps,
          ripple_source |-> None, ripple_target |-> None, ripple_weight |-> 0]

\* the sets of at most m elements of S
RECURSIVE SubsetsUpTo(_, _)
SubsetsUpTo(S, m) ==
    IF m = 0 THEN {{}}
    ELSE LET smaller == SubsetsUpTo(S, m - 1)
         IN smaller \cup {K \cup {x} : K \in smaller, x \in S}

\* the weight fields between concepts at most reach places apart in nl
KeysWithin(nl, reach) ==
    {k \in FieldKeys(nl) : k[1] - k[2] <= reach /\ k[2] - k[1] <= reach}

\* the weight fields of nl with the fields of K filled as g says, the rest blank
Filled(nl, K, g) == [k \in FieldKeys(nl) |-> IF k \in K THEN g[k] ELSE Blank]

\* st.selectbox returns one of its options, None when it has none
RippleChoices(nl) ==
    UNION { LET cand == CandidateTargets(nl, s)
            IN IF cand = <<>> THEN {<<s, None>>} ELSE {<<s, t>> : t \in Range(cand)}
            : s \in Range(nl) }

\* the selectboxes left at their first option
RippleDefault(nl) ==
    LET cand == CandidateTargets(nl, nl[1])
    IN {<<nl[1], IF cand = <<>> THEN None ELSE cand[1]>>}

\* ui is one run's widget values over the given choices; the text area of a
\* category exists only when the category was entered, and the widgets below
\* l.62 and l.76 only in a run that gets there
Runs(catInputs, areaTexts, texts, filled, reach, initVals, stepChoices, allPairs, weights) ==
    \E ci \in catInputs :
      \E areas \in [Range(StripLines(ci)) -> areaTexts] :
        LET cats == StripLines(ci)
            nl == NodeListOf(cats, CategoryToNodes(cats, areas))
            head == [categories_input |-> ci, concepts |-> areas]
        IN IF cats = <<>> \/ Len(nl) < MinNodes
           THEN ui = head @@ Unset
           ELSE \E K \in SubsetsUpTo(KeysWithin(nl, reach), filled) :
                  \E g \in [K -> texts] :
                    \E iv \in [Range(nl) -> initVals] :
                      \E s \in stepChoices :
                        \E st \in (IF allPairs THEN RippleChoices(nl) ELSE RippleDefault(nl)) :
                          \E w \in weights :
                            ui = head @@ [fields |-> Filled(nl, K, g), init_slider |-> iv,
                                          steps_slider |-> s, ripple_source |-> st[1],
                                          ripple_target |-> st[2], ripple_weight |-> w]

T_half == <<"0", ".", "5">>
T_minus_half == <<"-", "0", ".", "5">>
T_one == <<"1">>
T_minus_one == <<"-", "1">>
T_padded_one == <<" ", "+", "1", ".", " ">>
T_zero == <<"0">>
T_two == <<"2">>
T_word == <<"x">>

\* maps of up to three concepts, the initial activations and step counts varied
PropagationRuns ==
    Runs({<<>>, <<P>>}, {<<A>>, <<A, A>>, <<A, B>>, <<A, B, C>>},
         {T_half, T_minus_half}, MaxFilled, 3,
         {0, Half, One}, 1..MaxSteps, FALSE, {Half})

\* maps of up to three concepts, the edited edge and its new weight varied
ScenarioRuns ==
    Runs({<<P>>}, {<<A, A>>, <<A, B>>, <<A, B, C>>},
         {T_half, T_minus_half}, MaxFilled, 3,
         {Half}, {MaxSteps}, TRUE, {0 - One, 0 - Half, 0, Half, One})

\* the concept lists and the weight texts varied
EntryRuns ==
    Runs({<<>>, <<Blank>>, <<P>>, <<P, P>>, <<P, Q>>},
         {<<>>, <<A>>, <<A, A>>, <<B, <<" ">>, <<" ", "A">>>>},
         {T_half, T_minus_one, T_padded_one, T_zero, T_two, T_word},
         MaxFilled, 3, {Half}, {1}, FALSE, {Half})

\* maps of six concepts with up to MaxLinks influences, each between concepts
\* at most two places apart in the list
SummaryRuns ==
    Runs({<<P>>}, {<<A, B, C, D, E, F>>}, {T_one}, MaxLinks, 2, {Half}, {1}, FALSE, {0})

(* ------------------------------ the script ---------------------------- *)

\* the script's names before the run binds them
Unbound ==
    /\ pc = "categories"
    /\ categories = <<>> /\ category_to_nodes = EmptyDict /\ node_list = <<>>
    /\ edges = <<>> /\ initial_values = EmptyDict /\ G = EmptyGraph
    /\ steps = 0 /\ current_values = EmptyDict /\ updated_values = EmptyDict
    /\ step_no = 0 /\ node_ix = 0
    /\ top_out = <<>> /\ top_in = <<>>
    /\ selected_source = None /\ selected_target = None /\ new_weight = 0
    /\ modified_edges = <<>> /\ G_mod = EmptyGraph
    /\ original_values = EmptyDict /\ mod_values = EmptyDict /\ new_mod = EmptyDict
    /\ comparison = <<>>

Init == PropagationRuns /\ Unbound
InitScenario == ScenarioRuns /\ Unbound
InitEntry == EntryRuns /\ Unbound
InitSummary == SummaryRuns /\ Unbound

\* l.57-62
EnterCategories ==
    /\ pc = "categories"
    /\ categories' = StripLines(ui.categories_input)
    /\ pc' = IF categories' = <<>> THEN "stopped" ELSE "concepts"
    /\ UNCHANGED <<inputs, category_to_nodes, node_list, edges, initial_values,
                   original, cursor, summary, ripple, modified>>

\* l.67-76
EnterConcepts ==
    /\ pc = "concepts"
    /\ category_to_nodes' = CategoryToNodes(categories, ui.concepts)
    /\ node_list' = NodeListOf(categories, category_to_nodes')
    /\ pc' = IF Len(node_list') < MinNodes THEN "stopped" ELSE "edges"
    /\ UNCHANGED <<inputs, categories, edges, initial_values,
                   original, cursor, summary, ripple, modified>>

\* l.90-120
EnterInfluences ==
    /\ pc = "edges"
    /\ edges' = CollectEdges(node_list, ui.fields, 1)
    /\ pc' = "initial"
    /\ UNCHANGED <<inputs, categories, category_to_nodes, node_list, initial_values,
                   original, cursor, summary, ripple, modified>>

\* l.130-132
SetInitialValues ==
    /\ pc = "initial"
    /\ initial_values' = [n \in Range(node_list) |-> ui.init_slider[n]]
    /\ pc' = "build"
    /\ UNCHANGED <<inputs, categories, category_to_nodes, node_list, edges,
                   original, cursor, summary, ripple, modified>>

\* l.135-137
BuildG ==
    /\ pc = "build"
    /\ G' = BuildGraph(node_list, edges)
    /\ pc' = "steps"
    /\ UNCHANGED <<inputs, entry, steps, current_values, cursor, summary, ripple, modified>>

\* l.151-152
StartPropagation ==
    /\ pc = "steps"
    /\ steps' = ui.steps_slider
    /\ current_values' = initial_values
    /\ step_no' = 0 /\ node_ix' = 0 /\ updated_values' = EmptyDict
    /\ pc' = "propagate"
    /\ UNCHANGED <<inputs, entry, G, summary, ripple, modified>>

\* l.161-163, one node
PropagateNode ==
    /\ pc = "propagate"
    /\ node_ix < Len(G.nodes)
    /\ updated_values' = UpdateNode(G, current_values, updated_values, G.nodes[node_ix + 1])
    /\ node_ix' = node_ix + 1
    /\ UNCHANGED <<inputs, pc, entry, original, step_no, summary, ripple, modified>>

\* l.164, and l.159-160 for the next step
FinishStep ==
    /\ pc = "propagate"
    /\ node_ix = Len(G.nodes)
    /\ current_values' = updated_values
    /\ step_no' = step_no + 1
    /\ node_ix' = 0
    /\ updated_values' = IF step_no + 1 < steps THEN EmptyDict ELSE updated_values
    /\ pc' = IF step_no + 1 < steps THEN "propagate" ELSE "summary"
    /\ UNCHANGED <<inputs, entry, G, steps, summary, ripple, modified>>

\* l.203-235
GraphSummary ==
    /\ pc = "summary"
    /\ IF Len(edges) >= MinEdgesForSummary
       THEN /\ top_out' = Take(SortedByDegree(OutDegreeItems(G)), TopN)
            /\ top_in' = Take(SortedByDegree(InDegreeItems(G)), TopN)
       ELSE UNCHANGED <<top_out, top_in>>
    /\ pc' = "ripple"
    /\ UNCHANGED <<inputs, entry, original, cursor, ripple, modified>>

\* l.245-255
ChooseChange ==
    /\ pc = "ripple"
    /\ selected_source' = ui.ripple_source
    /\ selected_target' = ui.ripple_target
    /\ new_weight' = ui.ripple_weight
    /\ modified_edges' = ModifiedEdges(edges, ui.ripple_source, ui.ripple_target,
                                       ui.ripple_weight)
    /\ pc' = "build_mod"
    /\ UNCHANGED <<inputs, entry, original, cursor, summary, G_mod, modified>>

\* l.258-260
BuildGMod ==
    /\ pc = "build_mod"
    /\ G_mod' = BuildGraph(node_list, modified_edges)
    /\ pc' = "mod_start"
    /\ UNCHANGED <<inputs, entry, original, cursor, summary, selected_source,
                   selected_target, new_weight, modified_edges, modified>>

\* l.263-264
StartModified ==
    /\ pc = "mod_start"
    /\ original_values' = current_values
    /\ mod_values' = ModStart(initial_values, current_values)
    /\ step_no' = 0 /\ node_ix' = 0 /\ new_mod' = EmptyDict
    /\ pc' = "mod_propagate"
    /\ UNCHANGED <<inputs, entry, original, updated_values, summary, ripple, comparison>>

\* l.268-270, one node; mod_values[node] raises KeyError for a node of G_mod
\* that has no activation
PropagateModNode ==
    /\ pc = "mod_propagate"
    /\ node_ix < Len(G_mod.nodes)
    /\ IF G_mod.nodes[node_ix + 1] \in DOMAIN mod_values
       THEN /\ new_mod' = UpdateNode(G_mod, mod_values, new_mod, G_mod.nodes[node_ix + 1])
            /\ node_ix' = node_ix + 1
            /\ pc' = pc
       ELSE /\ pc' = "crashed"
            /\ UNCHANGED <<new_mod, node_ix>>
    /\ UNCHANGED <<inputs, entry, original, updated_values, step_no, summary, ripple,
                   original_values, mod_values, comparison>>

\* l.271, and l.266-267 for the next step
FinishModStep ==
    /\ pc = "mod_propagate"
    /\ node_ix = Len(G_mod.nodes)
    /\ mod_values' = new_mod
    /\ step_no' = step_no + 1
    /\ node_ix' = 0
    /\ new_mod' = IF step_no + 1 < steps THEN EmptyDict ELSE new_mod
    /\ pc' = IF step_no + 1 < steps THEN "mod_propagate" ELSE "compare"
    /\ UNCHANGED <<inputs, entry, original, updated_values, summary, ripple,
                   original_values, comparison>>

\* l.280-285
Compare ==
    /\ pc = "compare"
    /\ comparison' = Comparison(node_list, original_values, mod_values)
    /\ pc' = "done"
    /\ UNCHANGED <<inputs, entry, original, cursor, summary, ripple,
                   original_values, mod_values, new_mod>>

Next ==
    \/ EnterCategories
    \/ EnterConcepts
    \/ EnterInfluences
    \/ SetInitialValues
    \/ BuildG
    \/ StartPropagation
    \/ PropagateNode
    \/ FinishStep
    \/ GraphSummary
    \/ ChooseChange
    \/ BuildGMod
    \/ StartModified
    \/ PropagateModNode
    \/ FinishModStep
    \/ Compare

Spec == Init /\ [][Next]_vars
SpecScenario == InitScenario /\ [][Next]_vars
SpecEntry == InitEntry /\ [][Next]_vars
SpecSummary == InitSummary /\ [][Next]_vars

(* ------------------------- validity of the model ---------------------- *)

Products(Gr, values, node) ==
    {values[p] * Gr.weight[<<p, node>>] : p \in Predecessors(Gr, node)}

\* every product and every damped sum the next node visit forms is a whole
\* number of units, so that Mul loses nothing
ExactArithmetic ==
    /\ (pc = "propagate" /\ node_ix < Len(G.nodes)) =>
          /\ \A x \in Products(G, current_values, G.nodes[node_ix + 1]) : x % Scale = 0
          /\ (damping * Influence(G, current_values, G.nodes[node_ix + 1])) % Scale = 0
    /\ (pc = "mod_propagate" /\ node_ix < Len(G_mod.nodes)) =>
          /\ \A x \in Products(G_mod, mod_values, G_mod.nodes[node_ix + 1]) : x % Scale = 0
          /\ (damping * Influence(G_mod, mod_values, G_mod.nodes[node_ix + 1])) % Scale = 0

(* ------------------------------ properties ---------------------------- *)

Bound(p) == p \notin {"categories", "concepts", "edges", "initial", "build", "steps", "stopped"}

AfterRipple == {"build_mod", "mod_start", "mod_propagate", "compare", "done", "crashed"}

Pos(seq, x) == CHOOSE i \in 1..Len(seq) : seq[i] = x

\* Scale * Scale times clamp(v[n] + damping * sum of v[p] * weight(p, n), 0, 1),
\* in whole numbers
SynchronousValue(Gr, v, n) ==
    LET preds == {p \in DOMAIN v : <<p, n>> \in DOMAIN Gr.weight}
        raw == Scale * Scale * v[n]
               + damping * SumOver(preds, [p \in preds |-> v[p] * Gr.weight[<<p, n>>]])
    IN Max2(0, Min2(Scale * Scale * Scale, raw))

IsSynchronousImage(Gr, before, after) ==
    /\ DOMAIN after = DOMAIN before
    /\ \A n \in DOMAIN after : Scale * Scale * after[n] = SynchronousValue(Gr, before, n)

\* C1: whenever a propagation step replaces the activation vector, of the
\* original run or of the modified run, every node's new value is
\* clamp(v[n] + damping * sum over predecessors p of v[p] * weight(p, n), 0, 1)
\* with every v[...] read from the vector the step began with; between two
\* replacements the vector does not change.
C1_SynchronousStep ==
    [][/\ (pc = "propagate" /\ current_values' # current_values) =>
              IsSynchronousImage(G, current_values, current_values')
       /\ (pc = "mod_propagate" /\ pc' # "crashed" /\ mod_values' # mod_values) =>
              IsSynchronousImage(G_mod, mod_values, mod_values')]_vars

\* a step has run on a map in which a node visited earlier feeds a node
\* visited later and both changed in that step
C1_Witness ==
    /\ pc = "summary" /\ steps = 1
    /\ \E p, n \in Range(G.nodes) :
          /\ <<p, n>> \in DOMAIN G.weight
          /\ Pos(G.nodes, p) < Pos(G.nodes, n)
          /\ current_values[p] # initial_values[p]
          /\ current_values[n] # initial_values[n]

InUnitInterval(values) == \A n \in DOMAIN values : 0 <= values[n] /\ values[n] <= One

\* C2: after every propagation step, of the original run and of the modified
\* run, the activation vector has exactly the nodes of the graph as its keys
\* and every value lies in [0, 1].
C2_KeysAndRange ==
    /\ (Bound(pc) /\ (pc = "propagate" => step_no >= 1)) =>
          /\ DOMAIN current_values = Range(G.nodes)
          /\ InUnitInterval(current_values)
    /\ ((pc = "mod_propagate" /\ step_no >= 1) \/ pc \in {"compare", "done"}) =>
          /\ DOMAIN mod_values = Range(G_mod.nodes)
          /\ InUnitInterval(mod_values)

\* both runs are over and a node that started at 1 with a positive incoming
\* influence was held at 1
C2_Witness ==
    /\ pc = "done"
    /\ \E p, n \in Range(G.nodes) :
          /\ <<p, n>> \in DOMAIN G.weight /\ G.weight[<<p, n>>] > 0
          /\ initial_values[p] > 0 /\ initial_values[n] = One
          /\ current_values[n] = One /\ mod_values[n] = One

\* C3: a node with no incoming edge keeps exactly its initial activation after
\* every step, in the original run over G and in the modified run over G_mod.
C3_ZeroInDegreeStable ==
    /\ Bound(pc) =>
          \A n \in Range(G.nodes) :
              InDegree(G, n) = 0 => current_values[n] = initial_values[n]
    /\ ((pc = "mod_propagate" /\ step_no >= 1) \/ pc \in {"compare", "done"}) =>
          \A n \in Range(G_mod.nodes) :
              InDegree(G_mod, n) = 0 => mod_values[n] = initial_values[n]

\* all steps have run, a node without incoming edges started above 0 and
\* feeds a node that has changed
C3_Witness ==
    /\ pc = "summary" /\ steps >= 2
    /\ \E n, m \in Range(G.nodes) :
          /\ InDegree(G, n) = 0 /\ initial_values[n] > 0
          /\ <<n, m>> \in DOMAIN G.weight
          /\ current_values[m] # initial_values[m]

EndToEnd ==
    /\ G.nodes = <<A, B, C>>
    /\ G.weight = (<<A, B>> :> Half) @@ (<<B, C>> :> (0 - Half))
    /\ initial_values = (A :> One) @@ (B :> 0) @@ (C :> One)
    /\ steps = 2

\* C4: with nodes [A, B, C], edges (A, B, 0.5) and (B, C, -0.5), initial values
\* {A: 1.0, B: 0.0, C: 1.0}, 2 steps and damping 0.5, the vector is
\* {A: 1.0, B: 0.25, C: 1.0} after step 1 and {A: 1.0, B: 0.5, C: 0.9375} after
\* step 2.
C4_EndToEnd ==
    /\ (EndToEnd /\ damping = Half /\ pc = "propagate" /\ step_no = 1) =>
          current_values = (A :> One) @@ (B :> One \div 4) @@ (C :> One)
    /\ (EndToEnd /\ damping = Half /\ Bound(pc) /\ pc # "propagate") =>
          current_values = (A :> One) @@ (B :> One \div 2) @@ (C :> (15 * One) \div 16)

C4_Witness == EndToEnd /\ pc = "summary" /\ step_no = 2

Succ(Gr, S) == {t \in Range(Gr.nodes) : \E x \in S : <<x, t>> \in DOMAIN Gr.weight}

\* the nodes at most k edges away from a node of S
RECURSIVE ReachWithin(_, _, _)
ReachWithin(Gr, S, k) == IF k = 0 THEN S ELSE ReachWithin(Gr, S \cup Succ(Gr, S), k - 1)

Reach(Gr, t) == ReachWithin(Gr, {t}, Len(Gr.nodes))

KeepsOriginal ==
    pc \in {"ripple"} \cup AfterRipple =>
        UNCHANGED <<edges, G, initial_values, current_values, steps>>

\* C6: from the choice of the change on, the original edge list, the original
\* graph, the initial vector and the original result never change; the
\* modified run starts from the initial vector, the original result is what
\* is compared against, and the modified run takes as many steps as the
\* original run.
C6_OriginalUntouched ==
    /\ [][KeepsOriginal]_vars
    /\ []((pc = "mod_propagate" /\ step_no = 0) => mod_values = initial_values)
    /\ [](pc \in {"mod_propagate", "compare", "done"} => original_values = current_values)
    /\ [](pc \in {"compare", "done"} => step_no = steps)

\* the modified run has started on a map whose original result differs from
\* the initial vector
C6_Witness ==
    /\ pc = "mod_propagate" /\ step_no = 0 /\ node_ix = 1
    /\ current_values # initial_values
    /\ G_mod # G

Edited == <<selected_source, selected_target>>

\* C7: G_mod has the nodes of G, and the edges of G with their weights except
\* for the pair (source, target): there the weight is the new weight when G has
\* the edge or the new weight is not 0, and there is no edge otherwise.
C7_SingleEdgeOverride ==
    pc \in AfterRipple \ {"build_mod"} =>
        /\ G_mod.nodes = G.nodes
        /\ \A e \in (DOMAIN G.weight) \ {Edited} :
              e \in DOMAIN G_mod.weight /\ G_mod.weight[e] = G.weight[e]
        /\ (DOMAIN G_mod.weight) \ {Edited} \subseteq DOMAIN G.weight
        /\ Edited \in DOMAIN G_mod.weight <=> (Edited \in DOMAIN G.weight \/ new_weight # 0)
        /\ Edited \in DOMAIN G_mod.weight => G_mod.weight[Edited] = new_weight
        /\ (Edited \notin DOMAIN G.weight /\ new_weight = 0 /\ pc = "done") =>
              G_mod = G /\ mod_values = original_values

\* what float() and the range test make of the texts entered: the weight, or
\* 0 for a text that defines no edge
Expected(text) ==
    CASE text = T_half -> Half
      [] text = T_minus_half -> 0 - Half
      [] text = T_one -> One
      [] text = T_minus_one -> 0 - One
      [] text = T_padded_one -> One
      [] OTHER -> 0

Pair(k) == <<node_list[k[1]], node_list[k[2]]>>

\* the fields that define an edge
Defining == {k \in DOMAIN ui.fields : Expected(ui.fields[k]) # 0}

\* k is read after every other defining field of its pair
IsLast(k) ==
    \A h \in Defining :
        Pair(h) = Pair(k) => (h[1] < k[1] \/ (h[1] = k[1] /\ h[2] <= k[2]))

\* C8: the graph built from the weight fields has the concepts as nodes and
\* exactly the pairs of the fields whose text parses to a weight in [-1, 1]
\* other than 0 as edges, whatever the other fields hold; it has no self-loop,
\* and the weight of a pair is the weight of the last field that defines it.
C8_BadEntriesIgnored ==
    Bound(pc) =>
        /\ G.nodes = Dedup(node_list)
        /\ DOMAIN G.weight = {Pair(k) : k \in Defining}
        /\ \A k \in Defining : IsLast(k) => G.weight[Pair(k)] = Expected(ui.fields[k])
        /\ \A e \in DOMAIN G.weight : e[1] # e[2]
        /\ \A k \in Defining :
              \E i \in 1..Len(edges) : edges[i] = <<Pair(k)[1], Pair(k)[2], Expected(ui.fields[k])>>

\* a field that defines no edge (text that is no number, an out-of-range
\* number or 0) is read before a field that defines one, and the graph has
\* the latter's edge
C8_Witness ==
    /\ pc = "done"
    /\ \E bad, good \in DOMAIN ui.fields :
          /\ ui.fields[bad] # Blank /\ bad \notin Defining
          /\ good \in Defining
          /\ bad[1] < good[1] \/ (bad[1] = good[1] /\ bad[2] < good[2])
          /\ G.weight[Pair(good)] = Expected(ui.fields[good])

\* C9: the script gets past the minimum-node check only with at least 2
\* distinct concepts.
C9_AtLeastTwoConcepts ==
    pc \notin {"categories", "concepts", "stopped"} => Cardinality(Range(node_list)) >= 2

IsTopN(top, Gr, Degree(_, _)) ==
    /\ Len(top) = Min2(TopN, Len(Gr.nodes))
    /\ \A i \in 1..Len(top) :
          top[i][1] \in Range(Gr.nodes) /\ top[i][2] = Degree(Gr, top[i][1])
    /\ \A i, j \in 1..Len(top) :
          i < j => \/ top[i][2] > top[j][2]
                   \/ /\ top[i][2] = top[j][2]
                      /\ Pos(Gr.nodes, top[i][1]) < Pos(Gr.nodes, top[j][1])
    /\ \A n \in Range(Gr.nodes) :
          (\A i \in 1..Len(top) : top[i][1] # n) =>
              \A i \in 1..Len(top) : Degree(Gr, n) <= top[i][2]

SummaryDone == pc \in {"ripple"} \cup AfterRipple /\ Len(edges) >= MinEdgesForSummary

SummaryKeepsGraph == pc = "summary" => UNCHANGED <<G, node_list, edges>>

\* C10: the outbound and the inbound summary list min(5, number of nodes)
\* nodes with their out-degree (in-degree), a higher degree first and equal
\* degrees in node-insertion order; no omitted node has a higher degree than
\* a listed one; computing the summaries leaves the graph as it is.
C10_TopFive ==
    /\ [](SummaryDone => IsTopN(top_out, G, OutDegree) /\ IsTopN(top_in, G, InDegree))
    /\ [][SummaryKeepsGraph]_vars

\* six concepts, five listed: the first listed is not the first concept, two
\* listed ones tie, and the omitted one ties with the last listed
C10_Witness ==
    /\ SummaryDone /\ Len(G.nodes) = 6 /\ Len(top_out) = 5
    /\ top_out[1][1] # G.nodes[1]
    /\ top_out[1][2] > top_out[2][2]
    /\ top_out[2][2] = top_out[3][2]
    /\ \E n \in Range(G.nodes) :
          /\ \A i \in 1..5 : top_out[i][1] # n
          /\ OutDegree(G, n) = top_out[5][2]

====
